---- MODULE Spec2Model ----
(***************************************************************************)
(* Model of the perpetual points calculator (src/src/subgraph-types.ts,    *)
(* second half: the index.ts part starting at line 160).                   *)
(*                                                                         *)
(* calculateUserPoints maps a callback over the leaderboards; the model    *)
(* runs that callback record by record, one action per block of the body.  *)
(* calculateLiquidityPointBase is a pure function and is an operator.      *)
(* Decimal values are modelled by integers (all inputs drawn are integral, *)
(* on which Decimal add/sub/mul are exact).  The fields                    *)
(* conditionTradeVolume and swap are never read by the code and are left   *)
(* out of the records.                                                     *)
(***************************************************************************)
EXTENDS Integers, Sequences, FiniteSets, TLC

VARIABLES
  leaderboards,   \* input: PerpLeaderboard[]
  config,         \* input: CalculationConfig
  startTime,      \* input: window start
  stopTime,       \* input: window end
  overtime,       \* input: overtime flag
  history,        \* zero-or-one liquidity history the first record's snapshots were queried from
  pc,             \* position inside calculateUserPoints
  idx,            \* 1-based index of the record the map callback is working on
  result,         \* the callback's local `result`
  baseIntegral,   \* the callback's local `baseIntegral`
  tradeVolume,    \* the callback's local `tradeVolume`
  netProfit,      \* the callback's local `netProfit`
  results,        \* the array built by map
  firstResults,   \* zero-or-one: what an earlier call on the same arguments returned
  raw,            \* the SubgraphLeaderboardResponse[] the leaderboards are transformed from
  clientConfig,   \* SubgraphClient.config (defaults merged with the caller's)
  lastRequestTime,\* SubgraphClient.lastRequestTime
  now,            \* Date.now(), in ms
  source,         \* number of records the subgraph holds; record k is the number k
  pattern,        \* HTTP statuses the subgraph answers next (0: no response)
  steady,         \* the status the subgraph answers once the pattern is used up
  lags,           \* how long a response may take and how late a timer or the caller may be
  cpc,            \* position inside the SubgraphClient
  mode,           \* the public method the caller awaits
  retryCount,     \* executeQuery: parameter retryCount
  skip,           \* fetchPage: parameter skip; fetchAllData: local skip
  hasMore,        \* fetchAllData: local hasMore
  allData,        \* fetchAllData: local allData
  started,        \* when the running fetchPage was called
  fetched,        \* zero-or-one: the FetchResult fetchPage returned
  error,          \* the error thrown out of executeQuery
  delays,         \* the backoff delays executeQuery has waited in the running fetchPage
  calls,          \* the fetchPage calls that completed
  returned,       \* zero-or-one: what the public method returned to the caller
  options,        \* fetchWithOptions: parameter options
  shouldRetry,    \* fetchWithOptions: local shouldRetry of the catch block
  tasks,          \* concurrent callers: where each is in executeQuery
  issued,         \* concurrent callers: the times at which requests were issued
  validCount,     \* validateLeaderboards: local validCount
  errors,         \* validateLeaderboards: local errors
  summary         \* zero-or-one: what validateLeaderboards returned

vars == <<leaderboards, config, startTime, stopTime, overtime, history,
          pc, idx, result, baseIntegral, tradeVolume, netProfit, results,
          firstResults, raw, clientConfig, lastRequestTime, now, source,
          pattern, steady, lags, cpc, mode, retryCount, skip, hasMore,
          allData, started, fetched, error, delays, calls, returned,
          options, shouldRetry, tasks, issued, validCount, errors, summary>>

inputs == <<leaderboards, config, startTime, stopTime, overtime, history>>

\* the state outside a running call of calculateUserPoints
\* the state of the SubgraphClient, of the subgraph and of the client's caller
client == <<clientConfig, lastRequestTime, now, source, pattern, steady, lags, cpc,
            mode, retryCount, skip, hasMore, allData, started, fetched,
            error, delays, calls, returned, options, shouldRetry, tasks,
            issued>>

\* the state of a call of DataValidator.validateLeaderboards
validation == <<validCount, errors, summary>>

outside == <<firstResults, raw, validation, client>>

(***************************************************************************)
(* Bounds of the explored inputs.                                          *)
(***************************************************************************)
MaxTime == 2
MaxLp == 2
MaxBase == 2
MaxRate == 2
MaxAmount == 1
MaxHist == 3
MaxLimit == 1
MaxUsers == 2

Times == 0..MaxTime
Lps == 0..MaxLp
BasePts == 0..MaxBase
Rates == 0..MaxRate
Amounts == (-1)..MaxAmount
Volumes == 0..MaxAmount
Limits == 0..MaxLimit

(***************************************************************************)
(* Data structures (interfaces PerpLiquiditySnap .. UserPoints).           *)
(***************************************************************************)
PerpLiquiditySnap(lp, basePoints, timestamp) ==
  [lp |-> lp, basePoints |-> basePoints, timestamp |-> timestamp]

PerpLiquidity(lp, start, ended) ==
  [lp |-> lp, start |-> start, ended |-> ended]

PerpLeaderboardSnap(tv, np) ==
  [tradingVolume |-> tv, netProfit |-> np]

PerpLeaderboard(account, tv, np, latest, start, ended, liquidity) ==
  [account |-> account, tradingVolume |-> tv, netProfit |-> np,
   latestUpdateTimestamp |-> latest, start |-> start, ended |-> ended,
   liquidity |-> liquidity]

\* The limits are the optional fields of the documented configuration; a
\* zero-or-one sequence stands for an optional value.
CalculationConfig(lr, tpr, tr, ll, tpl, tl) ==
  [liquidityRate |-> lr, tradeProfitRate |-> tpr, tradeRate |-> tr,
   liquidityLimit |-> ll, tradeProfitLimit |-> tpl, tradeLimit |-> tl]

UserPoints(account, lp, vol, pnl) ==
  [account |-> account, lp_usd_hours |-> lp, volume_usd |-> vol,
   realized_pnl_net_usd |-> pnl]

EmptyLiquidity == PerpLiquidity(0, <<>>, <<>>)

NoResult == UserPoints("", 0, 0, 0)

\* Decimal.isNegative
isNegative(x) == x < 0

(***************************************************************************)
(* calculateLiquidityPointBase                                             *)
(***************************************************************************)
\* slip: the ended snapshot is extrapolated whatever its timestamp
EndIntegralUnguarded(endSnap, endTime) ==
  endSnap.basePoints + (endTime - endSnap.timestamp) * endSnap.lp

\* `integral` after the forward extrapolation of the ended snapshot
EndIntegral(endSnap, endTime) ==
  IF endSnap.timestamp < endTime
    THEN endSnap.basePoints + (endTime - endSnap.timestamp) * endSnap.lp
    ELSE endSnap.basePoints

\* slip: the start snapshot is not extrapolated to the window start
BeforeBasePointsNoExtrapolation(startSnap, startT) == startSnap.basePoints

\* `beforeBasePoints` of the start snapshot
BeforeBasePoints(startSnap, startT) ==
  IF startSnap.timestamp < startT
    THEN startSnap.basePoints + (startT - startSnap.timestamp) * startSnap.lp
    ELSE startSnap.basePoints

\* slip: the boundary ended.timestamp = startTime also returns early
EndedBeforeWindowInclusive(endSnap, startT) == endSnap.timestamp <= startT

\* the early return taken when the ended snapshot predates the window
EndedBeforeWindow(endSnap, startT) == endSnap.timestamp < startT

\* slip: without an ended snapshot the current lp is integrated over the window
calculateLiquidityPointBaseCurrentLp(liquidity, startT, endTime) ==
  IF Len(liquidity.ended) = 0 THEN liquidity.lp * (endTime - startT)
  ELSE LET endSnap == liquidity.ended[1] IN
       IF EndedBeforeWindow(endSnap, startT) THEN 0
       ELSE LET integral == EndIntegral(endSnap, endTime) IN
            IF Len(liquidity.start) > 0
              THEN integral - BeforeBasePoints(liquidity.start[1], startT)
              ELSE integral

calculateLiquidityPointBase(liquidity, startT, endTime) ==
  IF Len(liquidity.ended) = 0 THEN 0
  ELSE LET endSnap == liquidity.ended[1] IN
       IF EndedBeforeWindow(endSnap, startT) THEN 0
       ELSE LET integral == EndIntegral(endSnap, endTime) IN
            IF Len(liquidity.start) > 0
              THEN integral - BeforeBasePoints(liquidity.start[1], startT)
              ELSE integral

(***************************************************************************)
(* calculateUserPoints: the blocks of the map callback                     *)
(***************************************************************************)
lead == leaderboards[idx]

\* the overtime condition, written out twice in the code (volume, profit)
\* slip: a record updated exactly at the window end is substituted too
OvertimeVolumeInclusive(l) ==
  overtime /\ l.latestUpdateTimestamp >= stopTime /\ Len(l.ended) > 0

OvertimeVolume(l) ==
  overtime /\ l.latestUpdateTimestamp > stopTime /\ Len(l.ended) > 0

\* slip: the timestamp comparison of the profit block is reversed
OvertimeProfitReversed(l) ==
  overtime /\ l.latestUpdateTimestamp < stopTime /\ Len(l.ended) > 0

OvertimeProfit(l) ==
  overtime /\ l.latestUpdateTimestamp > stopTime /\ Len(l.ended) > 0

\* slip: a negative product is kept
LiquidityPointOfNoClamp(integral) == integral * config.liquidityRate

\* liquidity points of one record
LiquidityPointOf(integral) ==
  LET liquidityPoint == integral * config.liquidityRate IN
  IF isNegative(liquidityPoint) THEN 0 ELSE liquidityPoint

\* slip: the start snapshot is not subtracted
TradeVolumeOfNoBaseline(l) ==
  IF OvertimeVolume(l) THEN l.ended[1].tradingVolume ELSE l.tradingVolume

\* `tradeVolume` before the multiplication by the rate
TradeVolumeOf(l) ==
  LET base == IF OvertimeVolume(l) THEN l.ended[1].tradingVolume
                                   ELSE l.tradingVolume
  IN IF Len(l.start) > 0 THEN base - l.start[1].tradingVolume ELSE base

\* slip: the trade points are not clamped
TradePointOfNoClamp(volume) == volume * config.tradeRate

\* slip: the trade rate is not applied
TradePointOfNoRate(volume) == IF isNegative(volume) THEN 0 ELSE volume

TradePointOf(volume) ==
  LET tradePoint == volume * config.tradeRate IN
  IF isNegative(tradePoint) THEN 0 ELSE tradePoint

\* `netProfit` before the multiplication by the rate
NetProfitOf(l) ==
  LET base == IF OvertimeProfit(l) THEN l.ended[1].netProfit
                                   ELSE l.netProfit
  IN IF Len(l.start) > 0 THEN base - l.start[1].netProfit ELSE base

\* slip: the profit rate is not applied
TradeProfitPointOfNoRate(profit) == IF profit > 0 THEN profit ELSE 0

TradeProfitPointOf(profit) ==
  LET tradeProfitPoint == IF profit > 0 THEN profit * config.tradeProfitRate
                                        ELSE 0
  IN IF isNegative(tradeProfitPoint) THEN 0 ELSE tradeProfitPoint

\* the callback starts on record idx: `result` is initialised
Begin ==
  /\ pc = "map"
  /\ idx <= Len(leaderboards)
  /\ result' = UserPoints(lead.account, 0, 0, 0)
  /\ pc' = "liquidity"
  /\ UNCHANGED <<outside, inputs, idx, baseIntegral, tradeVolume, netProfit, results>>

LiquidityPoints ==
  /\ pc = "liquidity"
  /\ baseIntegral' = calculateLiquidityPointBase(lead.liquidity, startTime, stopTime)
  /\ result' = [result EXCEPT !.lp_usd_hours = LiquidityPointOf(baseIntegral')]
  /\ pc' = "trade"
  /\ UNCHANGED <<outside, inputs, idx, tradeVolume, netProfit, results>>

\* slip: `tradeVolume` is hoisted out of the callback and accumulates
TradePointsAccumulating ==
  /\ pc = "trade"
  /\ tradeVolume' = tradeVolume + TradeVolumeOf(lead)
  /\ result' = [result EXCEPT !.volume_usd = TradePointOf(tradeVolume')]
  /\ pc' = "profit"
  /\ UNCHANGED <<outside, inputs, idx, baseIntegral, netProfit, results>>

TradePoints ==
  /\ pc = "trade"
  /\ tradeVolume' = TradeVolumeOf(lead)
  /\ result' = [result EXCEPT !.volume_usd = TradePointOf(tradeVolume')]
  /\ pc' = "profit"
  /\ UNCHANGED <<outside, inputs, idx, baseIntegral, netProfit, results>>

\* slip: a loss is charged against the trade points
TradeProfitPointsOffsetLoss ==
  /\ pc = "profit"
  /\ netProfit' = NetProfitOf(lead)
  /\ result' = [result EXCEPT
       !.realized_pnl_net_usd = TradeProfitPointOf(netProfit'),
       !.volume_usd = IF netProfit' < 0
                        THEN TradePointOf(tradeVolume + netProfit')
                        ELSE result.volume_usd]
  /\ pc' = "return"
  /\ UNCHANGED <<outside, inputs, idx, baseIntegral, tradeVolume, results>>

TradeProfitPoints ==
  /\ pc = "profit"
  /\ netProfit' = NetProfitOf(lead)
  /\ result' = [result EXCEPT !.realized_pnl_net_usd = TradeProfitPointOf(netProfit')]
  /\ pc' = "return"
  /\ UNCHANGED <<outside, inputs, idx, baseIntegral, tradeVolume, results>>

\* slip: the result is put in front of the array
ReturnResultPrepend ==
  /\ pc = "return"
  /\ results' = <<result>> \o results
  /\ idx' = idx + 1
  /\ pc' = "map"
  /\ UNCHANGED <<outside, inputs, result, baseIntegral, tradeVolume, netProfit>>

\* slip: results are collected per account, a repeated account is merged
ReturnResultMergeAccounts ==
  /\ pc = "return"
  /\ IF \E k \in DOMAIN results : results[k].account = result.account
       THEN LET k == CHOOSE j \in DOMAIN results : results[j].account = result.account
            IN results' = [results EXCEPT
                 ![k].lp_usd_hours = @ + result.lp_usd_hours,
                 ![k].volume_usd = @ + result.volume_usd,
                 ![k].realized_pnl_net_usd = @ + result.realized_pnl_net_usd]
       ELSE results' = Append(results, result)
  /\ idx' = idx + 1
  /\ pc' = "map"
  /\ UNCHANGED <<outside, inputs, result, baseIntegral, tradeVolume, netProfit>>

\* the callback returns and map stores the result
ReturnResult ==
  /\ pc = "return"
  /\ results' = Append(results, result)
  /\ idx' = idx + 1
  /\ pc' = "map"
  /\ UNCHANGED <<outside, inputs, result, baseIntegral, tradeVolume, netProfit>>

\* map has visited every record and calculateUserPoints returns
Finish ==
  /\ pc = "map"
  /\ idx > Len(leaderboards)
  /\ pc' = "done"
  /\ UNCHANGED <<outside, inputs, idx, result, baseIntegral, tradeVolume, netProfit, results>>

Next ==
  \/ Begin
  \/ LiquidityPoints
  \/ TradePoints
  \/ TradeProfitPoints
  \/ ReturnResult
  \/ Finish

\* the caller invokes calculateUserPoints a second time on the same arguments
CallAgain ==
  /\ pc = "done"
  /\ firstResults = <<>>
  /\ firstResults' = <<results>>
  /\ results' = <<>>
  /\ idx' = 1
  /\ pc' = "map"
  /\ UNCHANGED <<inputs, raw, validation, client, result, baseIntegral, tradeVolume,
                 netProfit>>

NextTwice == Next \/ CallAgain

(***************************************************************************)
(* data-transformer (src/src/subgraph.test.ts, second half, from line      *)
(* 269): raw subgraph records to the calculator's types.  A wire value is  *)
(* a string, modelled as the sequence of its characters; a field that is   *)
(* null on the wire is a zero-or-one sequence.                             *)
(***************************************************************************)
DigitValue(c) ==
  CASE c = "0" -> 0 [] c = "1" -> 1 [] c = "2" -> 2 [] c = "3" -> 3
    [] c = "4" -> 4 [] c = "5" -> 5 [] c = "6" -> 6 [] c = "7" -> 7
    [] c = "8" -> 8 [] c = "9" -> 9

RECURSIVE DigitsValue(_)
DigitsValue(s) ==
  IF s = <<>> THEN 0
  ELSE 10 * DigitsValue(SubSeq(s, 1, Len(s) - 1)) + DigitValue(s[Len(s)])

\* new Decimal(x || '0') on an integer string: an empty string is falsy
DecimalOrZero(x) ==
  LET str == IF x = <<>> THEN <<"0">> ELSE x IN
  IF Head(str) = "-" THEN 0 - DigitsValue(Tail(str)) ELSE DigitsValue(str)

\* parseInt on a string of digits
parseInt(x) == DigitsValue(x)

transformLeaderboardSnap(snap) ==
  PerpLeaderboardSnap(DecimalOrZero(snap.tradingVolume), DecimalOrZero(snap.netProfit))

transformLiquiditySnap(snap) ==
  PerpLiquiditySnap(DecimalOrZero(snap.lp), DecimalOrZero(snap.basePoints),
                    parseInt(snap.timestamp))

\* slip: a missing liquidity gets a placeholder ended snapshot
transformLiquidityPlaceholderSnap(liquidity) ==
  IF liquidity = <<>> THEN PerpLiquidity(0, <<>>, <<PerpLiquiditySnap(0, 0, 0)>>)
  ELSE PerpLiquidity(DecimalOrZero(liquidity[1].lp),
                     [k \in DOMAIN liquidity[1].start |->
                        transformLiquiditySnap(liquidity[1].start[k])],
                     [k \in DOMAIN liquidity[1].ended |->
                        transformLiquiditySnap(liquidity[1].ended[k])])

transformLiquidity(liquidity) ==
  IF liquidity = <<>> THEN PerpLiquidity(0, <<>>, <<>>)
  ELSE PerpLiquidity(DecimalOrZero(liquidity[1].lp),
                     [k \in DOMAIN liquidity[1].start |->
                        transformLiquiditySnap(liquidity[1].start[k])],
                     [k \in DOMAIN liquidity[1].ended |->
                        transformLiquiditySnap(liquidity[1].ended[k])])

transformLeaderboard(leaderboard) ==
  PerpLeaderboard(leaderboard.account,
                  DecimalOrZero(leaderboard.tradingVolume),
                  DecimalOrZero(leaderboard.netProfit),
                  parseInt(leaderboard.latestUpdateTimestamp),
                  [k \in DOMAIN leaderboard.start |->
                     transformLeaderboardSnap(leaderboard.start[k])],
                  [k \in DOMAIN leaderboard.ended |->
                     transformLeaderboardSnap(leaderboard.ended[k])],
                  transformLiquidity(leaderboard.liquidity))

transformLeaderboards(raws) ==
  [k \in DOMAIN raws |-> transformLeaderboard(raws[k])]

\* the caller transforms the fetched records and hands them to the calculator
Transform ==
  /\ pc = "transform"
  /\ leaderboards' = transformLeaderboards(raw)
  /\ pc' = "map"
  /\ UNCHANGED <<config, startTime, stopTime, overtime, history, outside,
                 idx, result, baseIntegral, tradeVolume, netProfit, results>>

NextTransform == Transform \/ Next

(***************************************************************************)
(* DataValidator (src/src/subgraph.test.ts, from line 360).  The error     *)
(* messages are modelled without the offending value they quote.           *)
(***************************************************************************)
Digits == {"0", "1", "2", "3", "4", "5", "6", "7", "8", "9"}

\* new Decimal(value) does not throw: an optional sign and decimal digits
\* (over the characters drawn: digits, "-" and letters)
isValidNumericString(value) ==
  /\ value # <<>>
  /\ LET unsigned == IF Head(value) = "-" THEN Tail(value) ELSE value IN
     /\ unsigned # <<>>
     /\ \A k \in DOMAIN unsigned : unsigned[k] \in Digits

\* errors.push(message) when the condition holds
PushIf(condition, message) == IF condition THEN <<message>> ELSE <<>>

validateLeaderboard(leaderboard) ==
  PushIf(leaderboard.account = "", "Missing account address")
  \o PushIf(leaderboard.tradingVolume = <<>>, "Missing trading volume")
  \o PushIf(leaderboard.latestUpdateTimestamp = <<>>, "Missing latest update timestamp")
  \o PushIf(/\ leaderboard.tradingVolume # <<>>
            /\ ~isValidNumericString(leaderboard.tradingVolume),
            "Invalid numeric value for tradingVolume")
  \o PushIf(/\ leaderboard.conditionTradeVolume # <<>>
            /\ ~isValidNumericString(leaderboard.conditionTradeVolume),
            "Invalid numeric value for conditionTradeVolume")
  \o PushIf(/\ leaderboard.swap # <<>>
            /\ ~isValidNumericString(leaderboard.swap),
            "Invalid numeric value for swap")
  \o PushIf(/\ leaderboard.netProfit # <<>>
            /\ ~isValidNumericString(leaderboard.netProfit),
            "Invalid numeric value for netProfit")

validateLiquiditySnap(snap) ==
  PushIf(snap.id = "", "Missing snapshot ID")
  \o PushIf(snap.timestamp = <<>>, "Missing timestamp")
  \o PushIf(~isValidNumericString(snap.lp), "Invalid LP value")
  \o PushIf(~isValidNumericString(snap.basePoints), "Invalid basePoints value")

\* the errors of the snapshots of one list, each under the list's prefix
RECURSIVE SnapErrors(_, _)
SnapErrors(snaps, prefix) ==
  IF snaps = <<>> THEN <<>>
  ELSE [k \in DOMAIN validateLiquiditySnap(Head(snaps)) |->
          <<prefix, validateLiquiditySnap(Head(snaps))[k]>>]
       \o SnapErrors(Tail(snaps), prefix)

validateLiquidity(liquidity) ==
  PushIf(liquidity.account = "", "Missing liquidity account address")
  \o PushIf(liquidity.lp = <<>>, "Missing LP amount")
  \o PushIf(~isValidNumericString(liquidity.lp), "Invalid LP amount")
  \o SnapErrors(liquidity.start, "Start snap")
  \o SnapErrors(liquidity.ended, "End snap")

ValidationError(index, account, messages) ==
  [index |-> index, account |-> account, errors |-> messages]

ValidationSummary(valid, invalid, entries) ==
  [validCount |-> valid, invalidCount |-> invalid, errors |-> entries]

\* validateLeaderboards is called on the fetched records
CallValidateLeaderboards ==
  /\ pc = "validate"
  /\ errors' = <<>>
  /\ validCount' = 0
  /\ idx' = 1
  /\ pc' = "forEach"
  /\ UNCHANGED <<inputs, result, baseIntegral, tradeVolume, netProfit, results,
                 firstResults, raw, summary, client>>

\* slip: the liquidity of the record is not validated
ValidateRecordWithoutLiquidity ==
  /\ pc = "forEach"
  /\ idx <= Len(raw)
  /\ LET leaderboard == raw[idx]
         leaderboardErrors == validateLeaderboard(leaderboard)
     IN IF Len(leaderboardErrors) > 0
          THEN /\ errors' = Append(errors,
                      ValidationError(idx - 1,
                                      IF leaderboard.account = "" THEN "unknown"
                                      ELSE leaderboard.account,
                                      leaderboardErrors))
               /\ UNCHANGED validCount
          ELSE /\ validCount' = validCount + 1
               /\ UNCHANGED errors
  /\ idx' = idx + 1
  /\ UNCHANGED <<inputs, pc, result, baseIntegral, tradeVolume, netProfit, results,
                 firstResults, raw, summary, client>>

\* the forEach callback on the record at index idx - 1
ValidateRecord ==
  /\ pc = "forEach"
  /\ idx <= Len(raw)
  /\ LET leaderboard == raw[idx]
         leaderboardErrors ==
           validateLeaderboard(leaderboard)
           \o (IF leaderboard.liquidity # <<>>
                 THEN validateLiquidity(leaderboard.liquidity[1]) ELSE <<>>)
     IN IF Len(leaderboardErrors) > 0
          THEN /\ errors' = Append(errors,
                      ValidationError(idx - 1,
                                      IF leaderboard.account = "" THEN "unknown"
                                      ELSE leaderboard.account,
                                      leaderboardErrors))
               /\ UNCHANGED validCount
          ELSE /\ validCount' = validCount + 1
               /\ UNCHANGED errors
  /\ idx' = idx + 1
  /\ UNCHANGED <<inputs, pc, result, baseIntegral, tradeVolume, netProfit, results,
                 firstResults, raw, summary, client>>

ReturnSummary ==
  /\ pc = "forEach"
  /\ idx > Len(raw)
  /\ summary' = <<ValidationSummary(validCount, Len(errors), errors)>>
  /\ pc' = "validated"
  /\ UNCHANGED <<inputs, idx, result, baseIntegral, tradeVolume, netProfit, results,
                 firstResults, raw, validCount, errors, client>>

ValidateNext == CallValidateLeaderboards \/ ValidateRecord \/ ReturnSummary

(***************************************************************************)
(* DataStats (src/src/subgraph.test.ts, from line 597).  An average is a   *)
(* Decimal quotient and is kept as the pair of its numerator and its       *)
(* denominator.                                                            *)
(***************************************************************************)
RECURSIVE StatsLoop(_, _)
StatsLoop(rest, acc) ==
  IF rest = <<>> THEN acc
  ELSE LET lb == Head(rest)
           volume == DecimalOrZero(lb.tradingVolume)
           profit == DecimalOrZero(lb.netProfit)
       IN StatsLoop(Tail(rest),
            [totalTradingVolume |-> acc.totalTradingVolume + volume,
             totalNetProfit |-> acc.totalNetProfit + profit,
             usersWithLiquidity |->
               IF lb.liquidity # <<>> /\ DecimalOrZero(lb.liquidity[1].lp) > 0
                 THEN acc.usersWithLiquidity + 1 ELSE acc.usersWithLiquidity,
             profitableUsers |->
               IF profit > 0 THEN acc.profitableUsers + 1 ELSE acc.profitableUsers])

calculateStats(raws) ==
  LET totalUsers == Len(raws)
      sums == StatsLoop(raws, [totalTradingVolume |-> 0, totalNetProfit |-> 0,
                               usersWithLiquidity |-> 0, profitableUsers |-> 0])
  IN [totalUsers |-> totalUsers,
      totalTradingVolume |-> sums.totalTradingVolume,
      totalNetProfit |-> sums.totalNetProfit,
      averageTradingVolume |->
        IF totalUsers > 0 THEN <<sums.totalTradingVolume, totalUsers>> ELSE <<0, 1>>,
      averageNetProfit |->
        IF totalUsers > 0 THEN <<sums.totalNetProfit, totalUsers>> ELSE <<0, 1>>,
      usersWithLiquidity |-> sums.usersWithLiquidity,
      profitableUsers |-> sums.profitableUsers]

(***************************************************************************)
(* SubgraphClient (src/unnamed/part_001, from line 216).  One caller       *)
(* awaits one public method at a time.  An action runs from one await to   *)
(* the next; a setTimeout is waited for inside the action that sets it and *)
(* fires at its due time or later.                                         *)
(***************************************************************************)
PageSize == 1000
MsPerSecond == 1000
DefaultMaxRetries == 3
DefaultRetryDelay == 1000
RateLimitPause == 5000

MaxPages == 2
MaxPattern == 3
MaxCalls == 2
MaxLag == 1
MaxRetries == 2

\* more fetchPage calls than a subgraph that recovers can cause
LogCap == MaxCalls + MaxPages + MaxPattern + 1

\* the state of the calculator and of the transformer
calc == <<inputs, pc, idx, result, baseIntegral, tradeVolume, netProfit,
          results, firstResults, raw, validation>>

SubgraphConfig(rps, retries, delay) ==
  [requestsPerSecond |-> rps, maxRetries |-> retries, retryDelay |-> delay]

DEFAULT_SUBGRAPH_CONFIG == SubgraphConfig(5, 3, 1000)

FetchResult(data, skipped, more) ==
  [data |-> data,
   pagination |-> [skip |-> skipped, hasMore |-> more,
                   totalFetched |-> skipped + Len(data)]]

\* SubgraphError and its subclasses; statusCode 0: none
SubgraphError(name, statusCode) == [name |-> name, statusCode |-> statusCode]

NoError == SubgraphError("", 0)

FetchPageCall(begun, completed, skipped, err) ==
  [started |-> begun, completed |-> completed, skip |-> skipped, error |-> err]

\* the options of fetchWithOptions; maxRecords 0: not given (or 0)
FetchOptions(maxRecords, startFrom, onError) ==
  [maxRecords |-> maxRecords, startFrom |-> startFrom, onError |-> onError]

NoOptions == FetchOptions(0, 0, FALSE)

\* leaderboards(first: 1000, skip: $skip) over the records 1..source
Page(skipped) ==
  LET left == IF source > skipped THEN source - skipped ELSE 0
      size == IF left < PageSize THEN left ELSE PageSize
  IN [k \in 1..size |-> skipped + k]

\* the status of the response to the request in flight
Status == IF pattern = <<>> THEN steady ELSE Head(pattern)

Answered == IF pattern = <<>> THEN <<>> ELSE Tail(pattern)

\* slip: the interval is taken in seconds, Date.now() counts milliseconds
minIntervalInSeconds == 1 \div clientConfig.requestsPerSecond

\* waitForRateLimit: minInterval
minInterval == MsPerSecond \div clientConfig.requestsPerSecond

\* this.config.maxRetries || 3
maxRetriesOrDefault ==
  IF clientConfig.maxRetries = 0 THEN DefaultMaxRetries ELSE clientConfig.maxRetries

\* this.config.retryDelay || 1000
retryDelayOrDefault ==
  IF clientConfig.retryDelay = 0 THEN DefaultRetryDelay ELSE clientConfig.retryDelay

\* (this.config.retryDelay || 1000) * Math.pow(2, retryCount)
BackoffDelay(count) == retryDelayOrDefault * 2^count

\* the caller awaits fetchPage(epochBegin, epochEnded, skip)
CallFetchPage ==
  /\ cpc \in {"idle", "returned", "thrown"}
  /\ Len(calls) < MaxCalls
  /\ \E s \in {0, PageSize}, lag \in lags :
       /\ now' = now + lag
       /\ skip' = s
  /\ started' = now'
  /\ mode' = "fetchPage"
  /\ retryCount' = 0
  /\ delays' = <<>>
  /\ error' = NoError
  /\ fetched' = <<>>
  /\ returned' = <<>>
  /\ cpc' = "query"
  /\ UNCHANGED <<calc, clientConfig, lastRequestTime, source, pattern, lags, steady, options, tasks, issued, shouldRetry,
                 hasMore, allData, calls>>

\* the caller awaits fetchAllData(epochBegin, epochEnded)
CallFetchAllData ==
  /\ cpc \in {"idle", "returned", "thrown"}
  /\ Len(calls) < MaxCalls
  /\ \E lag \in lags : now' = now + lag
  /\ mode' = "fetchAllData"
  /\ allData' = <<>>
  /\ skip' = 0
  /\ hasMore' = TRUE
  /\ error' = NoError
  /\ fetched' = <<>>
  /\ returned' = <<>>
  /\ cpc' = "loop"
  /\ UNCHANGED <<calc, clientConfig, lastRequestTime, source, pattern, lags, steady, options, tasks, issued, shouldRetry,
                 retryCount, started, delays, calls>>

\* fetchAllData: while (hasMore) calls fetchPage at the current skip
NextBatch ==
  /\ cpc = "loop"
  /\ hasMore
  /\ started' = now
  /\ retryCount' = 0
  /\ delays' = <<>>
  /\ error' = NoError
  /\ cpc' = "query"
  /\ UNCHANGED <<calc, clientConfig, lastRequestTime, now, source, pattern,
                 lags, steady, options, tasks, issued, shouldRetry, mode, skip, hasMore, allData, fetched, calls, returned>>

\* fetchAllData: the loop is left and allData is returned
ReturnAllData ==
  /\ cpc = "loop"
  /\ ~hasMore
  /\ returned' = <<allData>>
  /\ cpc' = "returned"
  /\ UNCHANGED <<calc, clientConfig, lastRequestTime, now, source, pattern,
                 lags, steady, options, tasks, issued, shouldRetry, mode, retryCount, skip, hasMore, allData, started,
                 fetched, error, delays, calls>>

\* executeQuery awaits waitForRateLimit and then issues the request
WaitForRateLimit ==
  /\ cpc = "query"
  /\ IF clientConfig.requestsPerSecond = 0
       THEN UNCHANGED <<now, lastRequestTime>>
       ELSE LET timeSinceLastRequest == now - lastRequestTime IN
            /\ IF timeSinceLastRequest < minInterval
                 THEN \E late \in lags :
                        now' = now + (minInterval - timeSinceLastRequest) + late
                 ELSE now' = now
            /\ lastRequestTime' = now'
  /\ cpc' = "request"
  /\ UNCHANGED <<calc, clientConfig, source, pattern, lags, steady, options, tasks, issued, shouldRetry, mode, retryCount,
                 skip, hasMore, allData, started, fetched, error, delays,
                 calls, returned>>

\* the request resolves; fetchPage builds its FetchResult and returns
RequestSucceeds ==
  /\ cpc = "request"
  /\ Status = 200
  /\ \E lag \in lags : now' = now + lag
  /\ pattern' = Answered
  /\ LET data == Page(skip) IN
       fetched' = <<FetchResult(data, skip, Len(data) = PageSize)>>
  /\ calls' = Append(calls, FetchPageCall(started, now', skip, NoError))
  /\ cpc' = "fetched"
  /\ UNCHANGED <<calc, clientConfig, lastRequestTime, source, lags, steady, options, tasks, issued, shouldRetry, mode,
                 retryCount, skip, hasMore, allData, started, error, delays,
                 returned>>

\* catch: status 429 throws RateLimitError out of executeQuery and fetchPage
ThrowRateLimitError ==
  /\ cpc = "request"
  /\ Status = 429
  /\ \E lag \in lags : now' = now + lag
  /\ pattern' = Answered
  /\ error' = SubgraphError("RateLimitError", 429)
  /\ calls' = Append(calls, FetchPageCall(started, now', skip, error'))
  /\ cpc' = "failed"
  /\ UNCHANGED <<calc, clientConfig, lastRequestTime, source, lags, steady, options, tasks, issued, shouldRetry, mode,
                 retryCount, skip, hasMore, allData, started, fetched, delays,
                 returned>>

\* catch: status >= 500 with retries left waits and calls executeQuery again
RetryServerError ==
  /\ cpc = "request"
  /\ Status # 429 /\ Status >= 500
  /\ retryCount < maxRetriesOrDefault
  /\ \E lag \in lags, late \in lags :
       now' = now + lag + BackoffDelay(retryCount) + late
  /\ pattern' = Answered
  /\ delays' = Append(delays, BackoffDelay(retryCount))
  /\ retryCount' = retryCount + 1
  /\ cpc' = "query"
  /\ UNCHANGED <<calc, clientConfig, lastRequestTime, source, lags, steady, options, tasks, issued, shouldRetry, mode,
                 skip, hasMore, allData, started, fetched, error, calls,
                 returned>>

\* catch: status >= 500 with no retry left throws NetworkError
ThrowServerError ==
  /\ cpc = "request"
  /\ Status # 429 /\ Status >= 500
  /\ ~(retryCount < maxRetriesOrDefault)
  /\ \E lag \in lags : now' = now + lag
  /\ error' = SubgraphError("NetworkError", Status)
  /\ pattern' = Answered
  /\ calls' = Append(calls, FetchPageCall(started, now', skip, error'))
  /\ cpc' = "failed"
  /\ UNCHANGED <<calc, clientConfig, lastRequestTime, source, lags, steady, options, tasks, issued, shouldRetry, mode,
                 retryCount, skip, hasMore, allData, started, fetched, delays,
                 returned>>

\* catch: another status >= 400 throws SubgraphError (CLIENT_ERROR)
ThrowClientError ==
  /\ cpc = "request"
  /\ Status # 429 /\ ~(Status >= 500) /\ Status >= 400
  /\ \E lag \in lags : now' = now + lag
  /\ pattern' = Answered
  /\ error' = SubgraphError("SubgraphError", Status)
  /\ calls' = Append(calls, FetchPageCall(started, now', skip, error'))
  /\ cpc' = "failed"
  /\ UNCHANGED <<calc, clientConfig, lastRequestTime, source, lags, steady, options, tasks, issued, shouldRetry, mode,
                 retryCount, skip, hasMore, allData, started, fetched, delays,
                 returned>>

\* catch: no response (network error) with retries left waits and retries
RetryNetworkError ==
  /\ cpc = "request"
  /\ Status = 0
  /\ retryCount < maxRetriesOrDefault
  /\ \E lag \in lags, late \in lags :
       now' = now + lag + BackoffDelay(retryCount) + late
  /\ pattern' = Answered
  /\ delays' = Append(delays, BackoffDelay(retryCount))
  /\ retryCount' = retryCount + 1
  /\ cpc' = "query"
  /\ UNCHANGED <<calc, clientConfig, lastRequestTime, source, lags, steady, options, tasks, issued, shouldRetry, mode,
                 skip, hasMore, allData, started, fetched, error, calls,
                 returned>>

\* catch: no response with no retry left throws NetworkError
ThrowNetworkError ==
  /\ cpc = "request"
  /\ Status = 0
  /\ ~(retryCount < maxRetriesOrDefault)
  /\ \E lag \in lags : now' = now + lag
  /\ error' = SubgraphError("NetworkError", Status)
  /\ pattern' = Answered
  /\ calls' = Append(calls, FetchPageCall(started, now', skip, error'))
  /\ cpc' = "failed"
  /\ UNCHANGED <<calc, clientConfig, lastRequestTime, source, lags, steady, options, tasks, issued, shouldRetry, mode,
                 retryCount, skip, hasMore, allData, started, fetched, delays,
                 returned>>

\* fetchPage was called by the caller: its result is the caller's
ReturnPage ==
  /\ cpc = "fetched"
  /\ mode = "fetchPage"
  /\ returned' = fetched
  /\ cpc' = "returned"
  /\ UNCHANGED <<calc, clientConfig, lastRequestTime, now, source, pattern,
                 lags, steady, options, tasks, issued, shouldRetry, mode, retryCount, skip, hasMore, allData, started,
                 fetched, error, delays, calls>>

\* fetchAllData: the try block after fetchPage returned
PushPage ==
  /\ cpc = "fetched"
  /\ mode = "fetchAllData"
  /\ LET res == fetched[1] IN
       /\ allData' = allData \o res.data
       /\ hasMore' = IF Len(res.data) < PageSize THEN FALSE
                     ELSE res.pagination.hasMore
  /\ skip' = skip + PageSize
  /\ cpc' = "loop"
  /\ UNCHANGED <<calc, clientConfig, lastRequestTime, now, source, pattern,
                 lags, steady, options, tasks, issued, shouldRetry, mode, retryCount, started, fetched, error, delays,
                 calls, returned>>

\* the error leaves the public method (fetchAllData: throw error)
ThrowToCaller ==
  /\ cpc = "failed"
  /\ mode \in {"fetchPage", "fetchAllData"}
  /\ mode = "fetchPage" \/ error.name # "RateLimitError"
  /\ cpc' = "thrown"
  /\ UNCHANGED <<calc, clientConfig, lastRequestTime, now, source, pattern,
                 lags, steady, options, tasks, issued, shouldRetry, mode, retryCount, skip, hasMore, allData, started,
                 fetched, error, delays, calls, returned>>

\* slip: the batch that was rate limited is skipped
PauseRateLimitedSkipAhead ==
  /\ cpc = "failed"
  /\ mode = "fetchAllData" /\ error.name = "RateLimitError"
  /\ Len(calls) < LogCap
  /\ \E late \in lags : now' = now + RateLimitPause + late
  /\ skip' = skip + PageSize
  /\ cpc' = "loop"
  /\ UNCHANGED <<calc, clientConfig, lastRequestTime, source, pattern, lags, steady, options, tasks, issued, shouldRetry,
                 mode, retryCount, hasMore, allData, started, fetched,
                 error, delays, calls, returned>>

\* fetchAllData: a RateLimitError waits 5 seconds and retries the same batch
\* (explored for the first LogCap calls of fetchPage)
PauseRateLimited ==
  /\ cpc = "failed"
  /\ mode = "fetchAllData" /\ error.name = "RateLimitError"
  /\ Len(calls) < LogCap
  /\ \E late \in lags : now' = now + RateLimitPause + late
  /\ cpc' = "loop"
  /\ UNCHANGED <<calc, clientConfig, lastRequestTime, source, pattern, lags, steady, options, tasks, issued, shouldRetry,
                 mode, retryCount, skip, hasMore, allData, started, fetched,
                 error, delays, calls, returned>>

ClientNext ==
  \/ CallFetchPage
  \/ CallFetchAllData
  \/ NextBatch
  \/ ReturnAllData
  \/ WaitForRateLimit
  \/ RequestSucceeds
  \/ ThrowRateLimitError
  \/ RetryServerError
  \/ ThrowServerError
  \/ ThrowClientError
  \/ RetryNetworkError
  \/ ThrowNetworkError
  \/ ReturnPage
  \/ PushPage
  \/ ThrowToCaller
  \/ PauseRateLimited

\* the caller awaits fetchWithOptions(options)
CallFetchWithOptions ==
  /\ cpc \in {"idle", "returned", "thrown"}
  /\ Len(calls) < MaxCalls
  /\ \E lag \in lags : now' = now + lag
  /\ mode' = "fetchWithOptions"
  /\ allData' = <<>>
  /\ skip' = options.startFrom
  /\ hasMore' = TRUE
  /\ error' = NoError
  /\ fetched' = <<>>
  /\ returned' = <<>>
  /\ cpc' = "scan"
  /\ UNCHANGED <<calc, clientConfig, lastRequestTime, source, pattern, lags,
                 steady, options, tasks, issued, shouldRetry, retryCount, started, delays,
                 calls>>

\* fetchWithOptions: the condition of the while loop
MoreWanted ==
  hasMore /\ (options.maxRecords = 0 \/ Len(allData) < options.maxRecords)

\* fetchWithOptions: the loop goes on and calls fetchPage at the current skip
NextBatchWithOptions ==
  /\ cpc = "scan"
  /\ MoreWanted
  /\ started' = now
  /\ retryCount' = 0
  /\ delays' = <<>>
  /\ error' = NoError
  /\ cpc' = "query"
  /\ UNCHANGED <<calc, clientConfig, lastRequestTime, now, source, pattern,
                 lags, steady, options, tasks, issued, shouldRetry, mode, skip, hasMore,
                 allData, fetched, calls, returned>>

\* fetchWithOptions: the loop is left and allData is returned
ReturnOptionsData ==
  /\ cpc = "scan"
  /\ ~MoreWanted
  /\ returned' = <<allData>>
  /\ cpc' = "returned"
  /\ UNCHANGED <<calc, clientConfig, lastRequestTime, now, source, pattern,
                 lags, steady, options, tasks, issued, shouldRetry, mode, retryCount, skip,
                 hasMore, allData, started, fetched, error, delays, calls>>

\* slip: the page is pushed whole, maxRecords only ends the loop
PushPageWithOptionsWhole ==
  /\ cpc = "fetched"
  /\ mode = "fetchWithOptions"
  /\ LET res == fetched[1] IN
       /\ allData' = allData \o res.data
       /\ hasMore' = IF Len(res.data) < PageSize THEN FALSE
                     ELSE /\ res.pagination.hasMore
                          /\ (options.maxRecords = 0 \/ Len(allData') < options.maxRecords)
  /\ skip' = skip + PageSize
  /\ cpc' = "scan"
  /\ UNCHANGED <<calc, clientConfig, lastRequestTime, now, source, pattern,
                 lags, steady, options, tasks, issued, shouldRetry, mode, retryCount, started,
                 fetched, error, delays, calls, returned>>

\* fetchWithOptions: the try block after fetchPage returned
PushPageWithOptions ==
  /\ cpc = "fetched"
  /\ mode = "fetchWithOptions"
  /\ LET res == fetched[1]
         room == IF options.maxRecords - Len(allData) > 0
                   THEN options.maxRecords - Len(allData) ELSE 0
         recordsToAdd == IF options.maxRecords # 0
                           THEN SubSeq(res.data, 1, IF room < Len(res.data)
                                                      THEN room ELSE Len(res.data))
                           ELSE res.data
     IN
       /\ allData' = allData \o recordsToAdd
       /\ hasMore' = IF Len(res.data) < PageSize THEN FALSE
                     ELSE /\ res.pagination.hasMore
                          /\ (options.maxRecords = 0 \/ Len(allData') < options.maxRecords)
  /\ skip' = skip + PageSize
  /\ cpc' = "scan"
  /\ UNCHANGED <<calc, clientConfig, lastRequestTime, now, source, pattern,
                 lags, steady, options, tasks, issued, shouldRetry, mode, retryCount, started,
                 fetched, error, delays, calls, returned>>

\* fetchWithOptions: catch asks onError, if there is one, whether to retry
CatchError ==
  /\ cpc = "failed"
  /\ mode = "fetchWithOptions"
  /\ shouldRetry' \in (IF options.onError THEN BOOLEAN ELSE {FALSE})
  /\ cpc' = "caught"
  /\ UNCHANGED <<calc, clientConfig, lastRequestTime, now, source, pattern,
                 lags, steady, options, tasks, issued, mode, retryCount, skip, hasMore,
                 allData, started, fetched, error, delays, calls, returned>>

\* slip: a retry moves on to the next batch
ContinueNextBatch ==
  /\ cpc = "caught"
  /\ shouldRetry
  /\ skip' = skip + PageSize
  /\ cpc' = "scan"
  /\ UNCHANGED <<calc, clientConfig, lastRequestTime, now, source, pattern,
                 lags, steady, options, tasks, issued, shouldRetry, mode, retryCount,
                 hasMore, allData, started, fetched, error, delays, calls,
                 returned>>

\* fetchWithOptions: continue, the same batch is requested again
ContinueSameBatch ==
  /\ cpc = "caught"
  /\ shouldRetry
  /\ cpc' = "scan"
  /\ UNCHANGED <<calc, clientConfig, lastRequestTime, now, source, pattern,
                 lags, steady, options, tasks, issued, shouldRetry, mode, retryCount, skip,
                 hasMore, allData, started, fetched, error, delays, calls,
                 returned>>

\* fetchWithOptions: throw error
RethrowError ==
  /\ cpc = "caught"
  /\ ~shouldRetry
  /\ cpc' = "thrown"
  /\ UNCHANGED <<calc, clientConfig, lastRequestTime, now, source, pattern,
                 lags, steady, options, tasks, issued, shouldRetry, mode, retryCount, skip,
                 hasMore, allData, started, fetched, error, delays, calls,
                 returned>>

OptionsNext ==
  \/ ClientNext
  \/ CallFetchWithOptions
  \/ NextBatchWithOptions
  \/ ReturnOptionsData
  \/ PushPageWithOptions
  \/ CatchError
  \/ ContinueSameBatch
  \/ RethrowError

(***************************************************************************)
(* Concurrent callers of the same SubgraphClient: each task runs           *)
(* executeQuery up to the request; tasks interleave at the awaits.         *)
(***************************************************************************)
MaxTasks == 2
MaxRequests == 3

Tasks == 1..MaxTasks

\* the variables of the single awaiting caller
awaited == <<source, pattern, steady, lags, cpc, mode, retryCount, skip,
             hasMore, allData, started, fetched, error, delays, calls,
             returned, options, shouldRetry>>

Task(position, due) == [pc |-> position, wake |-> due]

\* the clock is followed for MaxRequests intervals
Horizon == MsPerSecond + MaxRequests * MsPerSecond

\* a task calls executeQuery: waitForRateLimit up to its await or its end
TaskEnter(t) ==
  /\ tasks[t].pc = "idle"
  /\ Len(issued) + Cardinality({u \in Tasks : tasks[u].pc # "idle"}) < MaxRequests
  /\ IF clientConfig.requestsPerSecond = 0
       THEN /\ tasks' = [tasks EXCEPT ![t] = Task("ready", 0)]
            /\ UNCHANGED lastRequestTime
       ELSE LET timeSinceLastRequest == now - lastRequestTime IN
            IF timeSinceLastRequest < minInterval
              THEN /\ tasks' = [tasks EXCEPT
                        ![t] = Task("waiting", now + (minInterval - timeSinceLastRequest))]
                   /\ UNCHANGED lastRequestTime
              ELSE /\ tasks' = [tasks EXCEPT ![t] = Task("ready", 0)]
                   /\ lastRequestTime' = now
  /\ UNCHANGED <<calc, awaited, clientConfig, now, issued>>

\* the timer of a waiting task fires: waitForRateLimit sets lastRequestTime
TaskWake(t) ==
  /\ tasks[t].pc = "waiting"
  /\ now >= tasks[t].wake
  /\ lastRequestTime' = now
  /\ tasks' = [tasks EXCEPT ![t] = Task("ready", 0)]
  /\ UNCHANGED <<calc, awaited, clientConfig, now, issued>>

\* executeQuery goes on after the await and issues client.request
TaskRequest(t) ==
  /\ tasks[t].pc = "ready"
  /\ issued' = Append(issued, now)
  /\ tasks' = [tasks EXCEPT ![t].pc = "idle"]
  /\ UNCHANGED <<calc, awaited, clientConfig, now, lastRequestTime>>

\* time passes: to the next timer that is due, or by a quarter of a second;
\* the continuation of a resolved await runs before any timer does
Tick ==
  /\ \A u \in Tasks : tasks[u].pc # "ready"
  /\ \E d \in {MsPerSecond \div 4} \cup
              {tasks[u].wake - now : u \in {v \in Tasks : tasks[v].pc = "waiting"}} :
       /\ d > 0
       /\ now + d <= Horizon
       /\ now' = now + d
  /\ UNCHANGED <<calc, awaited, clientConfig, lastRequestTime, tasks, issued>>

ConcurrentNext ==
  \/ \E t \in Tasks : TaskEnter(t)
  \/ \E t \in Tasks : TaskWake(t)
  \/ \E t \in Tasks : TaskRequest(t)
  \/ Tick

\* no SubgraphClient is in use
NoClient ==
  /\ clientConfig = DEFAULT_SUBGRAPH_CONFIG
  /\ lastRequestTime = 0
  /\ now = MsPerSecond
  /\ source = 0
  /\ pattern = <<>>
  /\ steady = 200
  /\ lags = {0}
  /\ cpc = "idle"
  /\ mode = ""
  /\ retryCount = 0
  /\ skip = 0
  /\ hasMore = FALSE
  /\ allData = <<>>
  /\ started = 0
  /\ fetched = <<>>
  /\ error = NoError
  /\ delays = <<>>
  /\ calls = <<>>
  /\ returned = <<>>
  /\ options = NoOptions
  /\ shouldRetry = FALSE
  /\ tasks = <<>>
  /\ issued = <<>>

(***************************************************************************)
(* Initial states: the arguments of one call of calculateUserPoints.       *)
(***************************************************************************)
\* validateLeaderboards has not been called
NoValidation ==
  /\ validCount = 0
  /\ errors = <<>>
  /\ summary = <<>>

Start(leads, cfg, ws, we, ot, hist) ==
  /\ leaderboards = leads
  /\ config = cfg
  /\ startTime = ws
  /\ stopTime = we
  /\ overtime = ot
  /\ history = hist
  /\ pc = "map"
  /\ idx = 1
  /\ result = NoResult
  /\ baseIntegral = 0
  /\ tradeVolume = 0
  /\ netProfit = 0
  /\ results = <<>>
  /\ firstResults = <<>>
  /\ raw = <<>>
  /\ NoValidation
  /\ NoClient

Opt(S) == {<<>>} \cup {<<x>> : x \in S}

LiquiditySnaps ==
  {PerpLiquiditySnap(l, b, t) : l \in Lps, b \in BasePts, t \in Times}

Liquidities ==
  {PerpLiquidity(l, s, e) : l \in {0, MaxLp},
                            s \in Opt(LiquiditySnaps), e \in Opt(LiquiditySnaps)}

TradingSnaps == {PerpLeaderboardSnap(v, p) : v \in Volumes, p \in Amounts}

RateConfig(lr, tpr, tr) == CalculationConfig(lr, tpr, tr, <<>>, <<>>, <<>>)

\* a liquidity record whose start snapshot carries more basePoints than its
\* ended snapshot (inconsistent data): the integral is negative
SkewedLiquidity ==
  PerpLiquidity(0, <<PerpLiquiditySnap(0, MaxBase, 0)>>,
                   <<PerpLiquiditySnap(0, 1, 0)>>)

\* liquidity slice: every liquidity record and window, trivial trading
InitLiq ==
  \E liq \in Liquidities, ws \in Times, we \in Times, lr \in Rates :
    Start(<<PerpLeaderboard("u1", 0, 0, 0, <<>>, <<>>, liq)>>,
          RateConfig(lr, 1, 1), ws, we, FALSE, <<>>)

\* trading slice: every trading record, with no or inconsistent liquidity
InitTrade ==
  \E tv \in Amounts, np \in Amounts, latest \in Times,
     s \in Opt(TradingSnaps), e \in Opt(TradingSnaps),
     liq \in {EmptyLiquidity, SkewedLiquidity},
     tpr \in Rates, tr \in Rates, we \in Times, ot \in BOOLEAN :
    Start(<<PerpLeaderboard("u1", tv, np, latest, s, e, liq)>>,
          RateConfig(1, tpr, tr), 0, we, ot, <<>>)

(***************************************************************************)
(* The fixtures of src/src/index.test.ts.                                  *)
(***************************************************************************)
FixtureLead(liq) == PerpLeaderboard("test", 0, 0, 0, <<>>, <<>>, liq)

\* 'should return 0 when no snapshots exist'
FixtureNoSnapshots == PerpLiquidity(100, <<>>, <<>>)

\* 'should return 0 when end snapshot is before start time'
FixtureEndBeforeStart ==
  PerpLiquidity(100, <<PerpLiquiditySnap(100, 50, 500)>>,
                     <<PerpLiquiditySnap(200, 100, 800)>>)

\* 'should calculate integral correctly within time segment' and
\* 'should handle time after end snapshot'
FixtureSegment ==
  PerpLiquidity(100, <<PerpLiquiditySnap(100, 50, 1000)>>,
                     <<PerpLiquiditySnap(200, 100, 1500)>>)

\* 'should handle start time before start snapshot'
FixtureLateStart ==
  PerpLiquidity(100, <<PerpLiquiditySnap(100, 50, 1200)>>,
                     <<PerpLiquiditySnap(200, 100, 1500)>>)

InitLiqFixtures ==
  \E f \in {<<FixtureNoSnapshots, 1000, 2000>>,
            <<FixtureEndBeforeStart, 1000, 2000>>,
            <<FixtureSegment, 1200, 1400>>,
            <<FixtureSegment, 1200, 1800>>,
            <<FixtureLateStart, 1000, 1400>>} :
    Start(<<FixtureLead(f[1])>>, RateConfig(1, 1, 1), f[2], f[3], FALSE, <<>>)

\* 'should apply liquidity limit correctly': createConfig(2, 1000), the
\* 1000 being meant as liquidityLimit
FixtureLiquidityLimit ==
  <<PerpLeaderboard("user1", 0, 0, 1500, <<>>, <<>>,
      PerpLiquidity(100, <<PerpLiquiditySnap(1000, 500, 1000)>>,
                         <<PerpLiquiditySnap(2000, 1000, 1400)>>)),
    CalculationConfig(2, 1000, 1, <<1000>>, <<>>, <<>>)>>

\* 'should apply trade limits correctly': tradeLimit = 1500,
\* tradeProfitLimit = 500
FixtureTradeLimits ==
  <<PerpLeaderboard("user1", 2000, 1000, 1500, <<>>, <<>>, EmptyLiquidity),
    CalculationConfig(1, 1, 1, <<>>, <<500>>, <<1500>>)>>

InitCapFixtures ==
  \E f \in {FixtureLiquidityLimit, FixtureTradeLimits} :
    Start(<<f[1]>>, f[2], 1000, 1500, FALSE, <<>>)

\* limit slice: configurations with and without limits
InitCap ==
  \E tv \in Amounts, np \in Amounts,
     liq \in {EmptyLiquidity,
              PerpLiquidity(0, <<>>, <<PerpLiquiditySnap(MaxLp, MaxBase, 0)>>)},
     lr \in Rates, tpr \in Rates, tr \in Rates,
     ll \in Opt(Limits), tpl \in Opt(Limits), tl \in Opt(Limits) :
    Start(<<PerpLeaderboard("u1", tv, np, 0, <<>>, <<>>, liq)>>,
          CalculationConfig(lr, tpr, tr, ll, tpl, tl), 0, MaxTime, FALSE, <<>>)

(***************************************************************************)
(* A liquidity history and the two snapshots LEADERBOARD_QUERY selects     *)
(* from it.                                                                *)
(***************************************************************************)
\* a history is a sequence of [lp, timestamp] changes, timestamps increasing
Histories ==
  {h \in UNION {[1..n -> [lp : Lps, timestamp : Times]] : n \in 0..MaxHist} :
     \A k \in 1..(Len(h) - 1) : h[k].timestamp < h[k + 1].timestamp}

RECURSIVE RunningIntegral(_, _)
\* basePoints of the k-th snapshot: the integral of lp from the first
\* snapshot up to the k-th one
RunningIntegral(h, k) ==
  IF k <= 1 THEN 0
  ELSE RunningIntegral(h, k - 1)
         + h[k - 1].lp * (h[k].timestamp - h[k - 1].timestamp)

SnapOf(h, k) == PerpLiquiditySnap(h[k].lp, RunningIntegral(h, k), h[k].timestamp)

\* snap(first: 1, orderBy: timestamp, orderDirection: desc,
\*      where: { timestamp_lte: bound })
QuerySnap(h, bound) ==
  LET ks == {k \in 1..Len(h) : h[k].timestamp <= bound} IN
  IF ks = {} THEN <<>>
  ELSE <<SnapOf(h, CHOOSE k \in ks : \A j \in ks : j <= k)>>

QueryLiquidity(h, epochBegin, epochEnded) ==
  PerpLiquidity(IF Len(h) = 0 THEN 0 ELSE h[Len(h)].lp,
                QuerySnap(h, epochBegin), QuerySnap(h, epochEnded))

InitHist ==
  \E h \in Histories, ws \in Times, we \in Times :
    /\ ws <= we
    /\ Start(<<PerpLeaderboard("u1", 0, 0, 0, <<>>, <<>>,
                               QueryLiquidity(h, ws, we))>>,
             RateConfig(1, 1, 1), ws, we, FALSE, <<h>>)

(***************************************************************************)
(* Lists of several records.                                               *)
(***************************************************************************)
Accounts == {"u1", "u2"}

ListRecords ==
  {PerpLeaderboard(a, tv, np, 0, s, <<>>, EmptyLiquidity) :
     a \in Accounts, tv \in Volumes, np \in {-1, MaxAmount},
     s \in {<<>>, <<PerpLeaderboardSnap(1, 1)>>}}

Lists == UNION {[1..n -> ListRecords] : n \in 0..MaxUsers}

\* 'should handle multiple users correctly'
FixtureTwoUsers ==
  <<PerpLeaderboard("user1", 1000, 50, 1500, <<>>, <<>>, EmptyLiquidity),
    PerpLeaderboard("user2", 2000, 100, 1500, <<>>, <<>>, EmptyLiquidity)>>

InitList ==
  \/ \E leads \in Lists, r \in {1, MaxRate} :
       Start(leads, RateConfig(1, r, r), 0, MaxTime, FALSE, <<>>)
  \/ Start(FixtureTwoUsers, RateConfig(1, 1, 1), 1000, 1500, FALSE, <<>>)

(***************************************************************************)
(* Pairs of records that differ in one category only.                      *)
(***************************************************************************)
PairSnaps == {PerpLeaderboardSnap(v, p) : v \in Volumes, p \in {-1, MaxAmount}}

PairRecords ==
  {PerpLeaderboard("u1", tv, np, latest, s, e, liq) :
     tv \in Volumes, np \in {-1, MaxAmount}, latest \in {0, MaxTime},
     s \in Opt(PairSnaps), e \in Opt(PairSnaps),
     liq \in {EmptyLiquidity, SkewedLiquidity,
              PerpLiquidity(0, <<>>, <<PerpLiquiditySnap(MaxLp, MaxBase, 0)>>)}}

SameShape(a, b) ==
  /\ a.account = b.account
  /\ a.latestUpdateTimestamp = b.latestUpdateTimestamp
  /\ Len(a.start) = Len(b.start)
  /\ Len(a.ended) = Len(b.ended)

VolumesOf(a) ==
  <<a.tradingVolume, [k \in DOMAIN a.start |-> a.start[k].tradingVolume],
    [k \in DOMAIN a.ended |-> a.ended[k].tradingVolume]>>

ProfitsOf(a) ==
  <<a.netProfit, [k \in DOMAIN a.start |-> a.start[k].netProfit],
    [k \in DOMAIN a.ended |-> a.ended[k].netProfit]>>

\* the two records differ at most in their netProfit values
SameExceptProfit(a, b) ==
  SameShape(a, b) /\ VolumesOf(a) = VolumesOf(b) /\ a.liquidity = b.liquidity

\* the two records differ at most in their tradingVolume values
SameExceptVolume(a, b) ==
  SameShape(a, b) /\ ProfitsOf(a) = ProfitsOf(b) /\ a.liquidity = b.liquidity

\* the two records differ at most in their liquidity record
SameExceptLiquidity(a, b) ==
  SameShape(a, b) /\ VolumesOf(a) = VolumesOf(b) /\ ProfitsOf(a) = ProfitsOf(b)

(***************************************************************************)
(* Raw records as the subgraph serves them.                                *)
(***************************************************************************)
SubgraphSnapResponse(tv, np) == [tradingVolume |-> tv, netProfit |-> np]

SubgraphLiquiditySnapResponse(lp, basePoints, timestamp) ==
  [lp |-> lp, basePoints |-> basePoints, timestamp |-> timestamp]

SubgraphLiquidityResponse(lp, start, ended) ==
  [lp |-> lp, start |-> start, ended |-> ended]

SubgraphLeaderboardResponse(account, tv, np, latest, start, ended, liquidity) ==
  [account |-> account, tradingVolume |-> tv, netProfit |-> np,
   latestUpdateTimestamp |-> latest, start |-> start, ended |-> ended,
   liquidity |-> liquidity]

RawLiquidities ==
  {SubgraphLiquidityResponse(<<"1">>, <<>>,
                             <<SubgraphLiquiditySnapResponse(<<"2">>, <<"1", "0">>, <<"0">>)>>),
   SubgraphLiquidityResponse(<<>>,
                             <<SubgraphLiquiditySnapResponse(<<>>, <<"3">>, <<"0">>)>>,
                             <<SubgraphLiquiditySnapResponse(<<"1">>, <<>>, <<"1">>)>>)}

RawRecords ==
  {SubgraphLeaderboardResponse(a, tv, np, <<"0">>, <<>>, e, liq) :
     a \in Accounts, tv \in {<<>>, <<"1", "0">>},
     np \in {<<"-", "1">>, <<"2">>},
     e \in Opt({SubgraphSnapResponse(<<"1", "2">>, <<>>)}),
     liq \in Opt(RawLiquidities)}

RawLists == UNION {[1..n -> RawRecords] : n \in 0..MaxUsers}

InitTransform ==
  \E raws \in RawLists :
    /\ raw = raws
    /\ NoValidation
    /\ leaderboards = <<>>
    /\ config = RateConfig(1, 1, 1)
    /\ startTime = 0
    /\ stopTime = MaxTime
    /\ overtime = FALSE
    /\ history = <<>>
    /\ pc = "transform"
    /\ idx = 1
    /\ result = NoResult
    /\ baseIntegral = 0
    /\ tradeVolume = 0
    /\ netProfit = 0
    /\ results = <<>>
    /\ firstResults = <<>>
    /\ NoClient

(***************************************************************************)
(* Raw records with every field DataValidator reads.                       *)
(***************************************************************************)
WireSnap(id, lp, basePoints, timestamp) ==
  [id |-> id, lp |-> lp, basePoints |-> basePoints, timestamp |-> timestamp]

WireLiquidity(account, lp, start, ended) ==
  [account |-> account, lp |-> lp, start |-> start, ended |-> ended]

WireLeaderboard(account, tv, ctv, swap, np, latest, liquidity) ==
  [account |-> account, tradingVolume |-> tv, conditionTradeVolume |-> ctv,
   swap |-> swap, netProfit |-> np, latestUpdateTimestamp |-> latest,
   liquidity |-> liquidity]

SoundSnap == WireSnap("s1", <<"2">>, <<"1", "0">>, <<"1">>)

\* snapshots: a sound one, and one for each check of validateLiquiditySnap
WireSnaps ==
  {SoundSnap,
   WireSnap("", <<"2">>, <<"1", "0">>, <<"1">>),
   WireSnap("s1", <<"2">>, <<"1", "0">>, <<>>),
   WireSnap("s1", <<"x">>, <<"1", "0">>, <<"1">>),
   WireSnap("s1", <<"2">>, <<>>, <<"1">>)}

WireLiquidities ==
  {WireLiquidity("u1", <<"1">>, <<>>, <<>>),
   WireLiquidity("", <<"1">>, <<>>, <<>>),
   WireLiquidity("u1", <<>>, <<>>, <<>>),
   WireLiquidity("u1", <<"-">>, <<>>, <<>>)}
  \cup {WireLiquidity("u1", <<"1">>, <<s>>, <<SoundSnap>>) : s \in WireSnaps}
  \cup {WireLiquidity("u1", <<"1">>, <<>>, <<SoundSnap, s>>) : s \in WireSnaps}

\* records: a sound one, and records that differ from it in one field
WireRecords ==
  {WireLeaderboard(a, <<"1", "0">>, <<"5">>, <<"0">>, <<"-", "1">>, <<"7">>, <<>>) :
     a \in {"", "u1", "u2"}}
  \cup {WireLeaderboard("u1", tv, <<"5">>, <<"0">>, <<"-", "1">>, <<"7">>, <<>>) :
          tv \in {<<>>, <<"1", "a">>, <<"-">>}}
  \cup {WireLeaderboard("u1", <<"1", "0">>, ctv, <<"0">>, <<"-", "1">>, <<"7">>, <<>>) :
          ctv \in {<<>>, <<"a">>}}
  \cup {WireLeaderboard("u1", <<"1", "0">>, <<"5">>, sw, <<"-", "1">>, <<"7">>, <<>>) :
          sw \in {<<>>, <<"1", "-">>}}
  \cup {WireLeaderboard("u1", <<"1", "0">>, <<"5">>, <<"0">>, np, <<"7">>, <<>>) :
          np \in {<<>>, <<"-", "a">>}}
  \cup {WireLeaderboard("u1", <<"1", "0">>, <<"5">>, <<"0">>, <<"-", "1">>, <<>>, <<>>)}
  \cup {WireLeaderboard("u1", <<"1", "0">>, <<"5">>, <<"0">>, <<"-", "1">>, <<"7">>, <<l>>) :
          l \in WireLiquidities}
  \cup {WireLeaderboard("", <<>>, <<"a">>, <<"0">>, <<"-", "1">>, <<"7">>,
                        <<WireLiquidity("", <<>>, <<>>, <<>>)>>)}

WireLists == UNION {[1..n -> WireRecords] : n \in 0..MaxUsers}

InitValidate ==
  \E raws \in WireLists :
    /\ raw = raws
    /\ leaderboards = <<>>
    /\ config = RateConfig(1, 1, 1)
    /\ startTime = 0
    /\ stopTime = 0
    /\ overtime = FALSE
    /\ history = <<>>
    /\ pc = "validate"
    /\ idx = 1
    /\ result = NoResult
    /\ baseIntegral = 0
    /\ tradeVolume = 0
    /\ netProfit = 0
    /\ results = <<>>
    /\ firstResults = <<>>
    /\ NoValidation
    /\ NoClient

InitPair ==
  \E a \in PairRecords, b \in PairRecords, ot \in BOOLEAN :
    /\ SameExceptProfit(a, b) \/ SameExceptVolume(a, b) \/ SameExceptLiquidity(a, b)
    /\ Start(<<a, b>>, RateConfig(1, 1, MaxRate), 0, 1, ot, <<>>)

(***************************************************************************)
(* Initial states of the SubgraphClient: a fresh client, a subgraph and    *)
(* the answers it is going to give.                                        *)
(***************************************************************************)
\* no calculation is running
NoCalculation ==
  /\ leaderboards = <<>>
  /\ config = RateConfig(1, 1, 1)
  /\ startTime = 0
  /\ stopTime = 0
  /\ overtime = FALSE
  /\ history = <<>>
  /\ pc = "fetch"
  /\ idx = 1
  /\ result = NoResult
  /\ baseIntegral = 0
  /\ tradeVolume = 0
  /\ netProfit = 0
  /\ results = <<>>
  /\ firstResults = <<>>
  /\ raw = <<>>
  /\ NoValidation

\* Date.now() counts from 1970: at construction it exceeds every interval
ClientFresh(cfg, n, answers, after, lg, opts) ==
  /\ NoCalculation
  /\ clientConfig = cfg
  /\ lastRequestTime = 0
  /\ now = MsPerSecond
  /\ source = n
  /\ pattern = answers
  /\ steady = after
  /\ lags = lg
  /\ cpc = "idle"
  /\ mode = ""
  /\ retryCount = 0
  /\ skip = 0
  /\ hasMore = FALSE
  /\ allData = <<>>
  /\ started = 0
  /\ fetched = <<>>
  /\ error = NoError
  /\ delays = <<>>
  /\ calls = <<>>
  /\ returned = <<>>
  /\ options = opts
  /\ shouldRetry = FALSE
  /\ tasks = <<>>
  /\ issued = <<>>

ClientStartAt(cfg, n, answers, after, lg) ==
  ClientFresh(cfg, n, answers, after, lg, NoOptions)

\* a subgraph that recovers: it answers 200 after the pattern
ClientStart(cfg, n, answers, lg) == ClientStartAt(cfg, n, answers, 200, lg)

\* source sizes around the page boundaries
Sizes ==
  {n \in {k * PageSize + d : k \in 0..MaxPages, d \in {-1, 0, 1}} : n >= 0}

PatternsOver(statuses) == UNION {[1..n -> statuses] : n \in 0..MaxPattern}

Lags == {0, MaxLag, MsPerSecond}

\* rates whose interval 1000 / r is a whole number of milliseconds; 0: no limit
RequestRates == {0, 1, 2, 5}

RetryDelays == {0, 1, DefaultRetryDelay \div 2}

\* pagination slice: every size, rate-limit errors between the pages
InitFetchAll ==
  \E n \in Sizes, answers \in PatternsOver({200, 429}) :
    ClientStart(DEFAULT_SUBGRAPH_CONFIG, n, answers, {0})

\* retry slice: every retry configuration and every kind of failure
InitRetry ==
  \E retries \in 0..MaxRetries, delay \in RetryDelays,
     answers \in PatternsOver({0, 200, 400, 429, 500}) :
    ClientStart(SubgraphConfig(0, retries, delay), 1, answers, {0})

\* timing slice: every rate, responses and timers that take their time
InitRate ==
  \E r \in RequestRates, answers \in {<<>>, <<429>>, <<500>>} :
    ClientStart(SubgraphConfig(r, 1, 1), 1, answers, Lags)

InitClient == InitFetchAll \/ InitRetry \/ InitRate

\* the options a caller of fetchWithOptions passes
OptionsSets ==
  {FetchOptions(m, from, handler) :
     m \in {0, 1, PageSize, PageSize + 1}, from \in {0, 1, PageSize},
     handler \in BOOLEAN}

\* failures of the first or second request, of each kind (with one retry)
OptionsAnswers ==
  {<<>>, <<429>>, <<200, 429>>, <<429, 429>>, <<400>>, <<500, 500>>, <<0, 0>>}

\* sources of less than a page, of one full page, and of more
OptionsSizes == {0, 1, PageSize, PageSize + 1, 2 * PageSize + 1}

\* options slice: every option on every such source
InitOptions ==
  \E n \in OptionsSizes, answers \in OptionsAnswers, opts \in OptionsSets :
    ClientFresh(SubgraphConfig(0, 1, 1), n, answers, 200, {0}, opts)

\* a fresh client shared by MaxTasks concurrent callers
InitConcurrent ==
  \E r \in {0, 1, 2} :
    /\ NoCalculation
    /\ clientConfig = SubgraphConfig(r, 1, 1)
    /\ lastRequestTime = 0
    /\ now = MsPerSecond
    /\ source = 0
    /\ pattern = <<>>
    /\ steady = 200
    /\ lags = {0}
    /\ cpc = "idle"
    /\ mode = ""
    /\ retryCount = 0
    /\ skip = 0
    /\ hasMore = FALSE
    /\ allData = <<>>
    /\ started = 0
    /\ fetched = <<>>
    /\ error = NoError
    /\ delays = <<>>
    /\ calls = <<>>
    /\ returned = <<>>
    /\ options = NoOptions
    /\ shouldRetry = FALSE
    /\ tasks = [t \in Tasks |-> Task("idle", 0)]
    /\ issued = <<>>

\* a subgraph that keeps rate limiting after its first answers
InitForever ==
  \E n \in Sizes, answers \in PatternsOver({200, 429, 500}) :
    ClientStartAt(DEFAULT_SUBGRAPH_CONFIG, n, answers, 429, {0})

Init == InitLiq \/ InitTrade

Spec == Init /\ [][Next]_vars

SpecLiq == (InitLiq \/ InitLiqFixtures) /\ [][Next]_vars

SpecCap == (InitCap \/ InitCapFixtures) /\ [][Next]_vars

SpecHist == InitHist /\ [][Next]_vars

SpecList == InitList /\ [][Next]_vars

SpecTwice == InitList /\ [][NextTwice]_vars

SpecPair == InitPair /\ [][Next]_vars

SpecTransform == InitTransform /\ [][NextTransform]_vars

SpecClient == InitClient /\ [][ClientNext]_vars

SpecOptions == InitOptions /\ [][OptionsNext]_vars

SpecValidate == InitValidate /\ [][ValidateNext]_vars

SpecConcurrent == InitConcurrent /\ [][ConcurrentNext]_vars

\* every pending continuation of the client is run: the event loop is fair
SpecClientFair ==
  (InitRetry \/ InitForever) /\ [][ClientNext]_vars /\ WF_vars(ClientNext)

(***************************************************************************)
(* Properties                                                              *)
(***************************************************************************)
Max0(x) == IF x < 0 THEN 0 ELSE x

Min(a, b) == IF a < b THEN a ELSE b

Max(a, b) == IF a < b THEN b ELSE a

\* index of the record whose liquidity block ran last (0 if none has)
LastLiq == IF pc \in {"trade", "profit", "return"} THEN idx ELSE idx - 1

\* the liquidity points of record k, once its liquidity block has run
LiquidityPointsAt(k) ==
  IF k < idx THEN results[k].lp_usd_hours ELSE result.lp_usd_hours

\* the end baselines the overtime policy selects for record l
EffectiveEndVolume(l) ==
  IF overtime /\ l.latestUpdateTimestamp > stopTime /\ l.ended # <<>>
    THEN l.ended[1].tradingVolume ELSE l.tradingVolume

EffectiveEndProfit(l) ==
  IF overtime /\ l.latestUpdateTimestamp > stopTime /\ l.ended # <<>>
    THEN l.ended[1].netProfit ELSE l.netProfit

\* E - S of section 4.1, steps 3 to 5
ClosedForm(liq, ws, we) ==
  LET e == liq.ended[1]
      E == IF e.timestamp < we THEN e.basePoints + (we - e.timestamp) * e.lp
                               ELSE e.basePoints
      S == IF liq.start = <<>> THEN 0
           ELSE LET s == liq.start[1] IN
                IF s.timestamp < ws
                  THEN s.basePoints + (ws - s.timestamp) * s.lp
                  ELSE s.basePoints
  IN E - S

\* C1: with non-negative rates every point value of every returned result
\* is >= 0, also for negative tradingVolume, netProfit or liquidity integral.
NonNegativePoints ==
  \A k \in DOMAIN results :
    /\ results[k].lp_usd_hours >= 0
    /\ results[k].volume_usd >= 0
    /\ results[k].realized_pnl_net_usd >= 0

NonNegativeWitness ==
  /\ pc = "done"
  /\ Len(results) = 1
  /\ baseIntegral < 0 /\ tradeVolume < 0 /\ netProfit < 0
  /\ config.liquidityRate > 0 /\ config.tradeRate > 0 /\ config.tradeProfitRate > 0
  /\ results[1].volume_usd = 0 /\ results[1].lp_usd_hours = 0

\* C2: when a limit is set the corresponding point value never exceeds it,
\* and equals the uncapped value whenever that value is <= the limit.
CapRespected ==
  \A k \in DOMAIN results :
    LET l == leaderboards[k]
        r == results[k]
        liqU == Max0(calculateLiquidityPointBase(l.liquidity, startTime, stopTime)
                       * config.liquidityRate)
        volU == Max0(TradeVolumeOf(l) * config.tradeRate)
        pnlU == Max0(NetProfitOf(l) * config.tradeProfitRate)
    IN /\ config.liquidityLimit # <<>> =>
            r.lp_usd_hours = Min(liqU, config.liquidityLimit[1])
       /\ config.tradeLimit # <<>> =>
            r.volume_usd = Min(volU, config.tradeLimit[1])
       /\ config.tradeProfitLimit # <<>> =>
            r.realized_pnl_net_usd = Min(pnlU, config.tradeProfitLimit[1])

\* lp in force at time u: the lp of the latest change at or before u
LpAt(h, u) ==
  LET ks == {k \in 1..Len(h) : h[k].timestamp <= u} IN
  IF ks = {} THEN 0 ELSE h[CHOOSE k \in ks : \A j \in ks : j <= k].lp

RECURSIVE CurveIntegral(_, _, _)
\* integral of the piecewise-constant lp curve over [a, b] (integer seconds)
CurveIntegral(h, a, b) ==
  IF a >= b THEN 0 ELSE LpAt(h, a) + CurveIntegral(h, a + 1, b)

\* C3: for snapshots queried from a history, calculateLiquidityPointBase
\* returns exactly the integral of the lp curve over [windowStart, windowEnd].
IntegralOfHistory ==
  (LastLiq = 1 /\ history # <<>>) =>
     baseIntegral = CurveIntegral(history[1], startTime, stopTime)

\* C4: the result is 0 whenever ended.timestamp < windowStart; at
\* ended.timestamp = windowStart the early return is not taken and the
\* result is the computed difference.
EarlyReturnBeforeWindow ==
  LastLiq >= 1 =>
    LET liq == leaderboards[LastLiq].liquidity IN
    liq.ended # <<>> =>
      /\ liq.ended[1].timestamp < startTime => baseIntegral = 0
      /\ liq.ended[1].timestamp = startTime =>
           baseIntegral = ClosedForm(liq, startTime, stopTime)

EarlyReturnWitness ==
  /\ pc = "done"
  /\ LET liq == leaderboards[1].liquidity IN
     /\ liq.ended # <<>> /\ liq.start # <<>>
     /\ liq.ended[1].timestamp < startTime
     /\ startTime < stopTime
     /\ liq.ended[1].lp > 0 /\ liq.ended[1].basePoints > liq.start[1].basePoints
  /\ baseIntegral = 0

\* C5: without an ended snapshot the integral is 0 for every window and the
\* liquidity points are 0 for every liquidityRate.
NoEndedNoPoints ==
  LastLiq >= 1 =>
    (leaderboards[LastLiq].liquidity.ended = <<>> =>
       baseIntegral = 0 /\ LiquidityPointsAt(LastLiq) = 0)

NoEndedWitness ==
  /\ pc = "done"
  /\ LET liq == leaderboards[1].liquidity IN
     /\ liq.ended = <<>> /\ liq.start # <<>>
     /\ liq.lp > 0 /\ liq.start[1].lp > 0 /\ liq.start[1].basePoints > 0
  /\ startTime < stopTime
  /\ config.liquidityRate > 0
  /\ results[1].lp_usd_hours = 0

SegmentFixtureValue ==
  (/\ LastLiq = 1
   /\ leaderboards[1].liquidity = FixtureSegment
   /\ startTime = 1200 /\ stopTime = 1400) => baseIntegral = 30000

\* C8: with both snapshots the result is the linear-interpolation value
\* ((start.lp + ended.lp) / 2) * (min(windowEnd, ended.t) - max(windowStart, start.t))
\* plus ended.lp * (windowEnd - ended.t) when windowEnd > ended.t
\* (stated doubled, to stay in the integers).
LinearInterpolationValue ==
  LastLiq >= 1 =>
    LET liq == leaderboards[LastLiq].liquidity IN
    (liq.ended # <<>> /\ liq.start # <<>>) =>
      LET s == liq.start[1]
          e == liq.ended[1]
      IN 2 * baseIntegral =
           (s.lp + e.lp) * (Min(stopTime, e.timestamp) - Max(startTime, s.timestamp))
           + (IF stopTime > e.timestamp
                THEN 2 * e.lp * (stopTime - e.timestamp) ELSE 0)

\* C9: with a start Trading Snapshot, rate 1 and no cap, the trade points are
\* max(0, v1 - v0) and the trade-profit points max(0, p1 - p0), v1 and p1
\* being the effective end values.
BaselineSubtraction ==
  \A k \in DOMAIN results :
    LET l == leaderboards[k] IN
    l.start # <<>> =>
      /\ config.tradeRate = 1 =>
           results[k].volume_usd =
             Max0(EffectiveEndVolume(l) - l.start[1].tradingVolume)
      /\ config.tradeProfitRate = 1 =>
           results[k].realized_pnl_net_usd =
             Max0(EffectiveEndProfit(l) - l.start[1].netProfit)

BaselineWitness ==
  /\ pc = "done"
  /\ config.tradeRate = 1 /\ config.tradeProfitRate = 1
  /\ LET l == leaderboards[1] IN
     /\ l.start # <<>>
     /\ l.start[1].tradingVolume > 0 /\ l.start[1].netProfit # 0
     /\ results[1].realized_pnl_net_usd > 0
     /\ results[1].volume_usd = 0
     /\ l.tradingVolume > 0

\* C10: when overtime holds, latestUpdateTimestamp > windowEnd and an ended
\* Trading Snapshot exists, both trade and trade-profit points are computed
\* from the ended snapshot; the top-level tradingVolume and netProfit do not
\* enter either result.
OvertimeSubstitution ==
  \A k \in DOMAIN results :
    LET l == leaderboards[k] IN
    (overtime /\ l.latestUpdateTimestamp > stopTime /\ l.ended # <<>>) =>
      LET v0 == IF l.start # <<>> THEN l.start[1].tradingVolume ELSE 0
          p0 == IF l.start # <<>> THEN l.start[1].netProfit ELSE 0
          v == l.ended[1].tradingVolume - v0
          p == l.ended[1].netProfit - p0
      IN /\ results[k].volume_usd = Max0(v * config.tradeRate)
         /\ results[k].realized_pnl_net_usd =
              (IF p > 0 THEN p * config.tradeProfitRate ELSE 0)

OvertimeWitness ==
  /\ pc = "done"
  /\ overtime
  /\ LET l == leaderboards[1] IN
     /\ l.latestUpdateTimestamp > stopTime /\ l.ended # <<>>
     /\ l.ended[1].tradingVolume # l.tradingVolume
     /\ l.ended[1].netProfit # l.netProfit
     /\ l.ended[1].netProfit > 0
  /\ results[1].volume_usd > 0 /\ results[1].realized_pnl_net_usd > 0

\* C11: calculateUserPoints completes and returns one result per input
\* record, the i-th result carrying the account of the i-th record.
OrderPreserved ==
  /\ Len(results) <= Len(leaderboards)
  /\ \A k \in DOMAIN results : results[k].account = leaderboards[k].account
  /\ pc = "done" => Len(results) = Len(leaderboards)
  /\ pc # "done" => ENABLED Next

OrderWitness ==
  /\ pc = "done"
  /\ Len(leaderboards) = 2
  /\ leaderboards[1].account = "u2" /\ leaderboards[2].account = "u1"
  /\ results[1].account = "u2" /\ results[2].account = "u1"

NoSubstitutionOtherwise ==
  \A k \in DOMAIN results :
    LET l == leaderboards[k] IN
    ~(overtime /\ l.latestUpdateTimestamp > stopTime /\ l.ended # <<>>) =>
      LET v0 == IF l.start # <<>> THEN l.start[1].tradingVolume ELSE 0
          p0 == IF l.start # <<>> THEN l.start[1].netProfit ELSE 0
      IN /\ results[k].volume_usd = Max0((l.tradingVolume - v0) * config.tradeRate)
         /\ results[k].realized_pnl_net_usd =
              (IF l.netProfit - p0 > 0
                 THEN (l.netProfit - p0) * config.tradeProfitRate ELSE 0)

NoSubstitutionWitness ==
  /\ pc = "done"
  /\ overtime
  /\ LET l == leaderboards[1] IN
     /\ l.latestUpdateTimestamp = stopTime /\ l.ended # <<>>
     /\ l.ended[1].tradingVolume # l.tradingVolume
     /\ l.ended[1].netProfit # l.netProfit
     /\ l.tradingVolume > 0 /\ l.netProfit > 0
  /\ results[1].volume_usd > 0 /\ results[1].realized_pnl_net_usd > 0

\* C13: calculateUserPoints is a pure function of its arguments: a second
\* call on the same arguments returns the same results, and no step of a call
\* changes a record, a snapshot, the configuration or the window.
PureFunction ==
  /\ []((pc = "done" /\ firstResults # <<>>) => results = firstResults[1])
  /\ [][inputs' = inputs]_vars

PureWitness ==
  /\ pc = "done"
  /\ firstResults # <<>>
  /\ Len(results) = 2
  /\ results[1].volume_usd > 0 /\ results[2].realized_pnl_net_usd > 0
  /\ results = firstResults[1]

\* C14: the three categories do not influence one another: two records that
\* differ only in netProfit values get the same liquidity and trade points,
\* two that differ only in tradingVolume values the same liquidity and
\* trade-profit points, two that differ only in the liquidity record the same
\* trade and trade-profit points.
CategoriesIndependent ==
  (pc = "done" /\ Len(leaderboards) = 2) =>
    LET a == leaderboards[1]
        b == leaderboards[2]
        ra == results[1]
        rb == results[2]
    IN /\ SameExceptProfit(a, b) =>
            ra.lp_usd_hours = rb.lp_usd_hours /\ ra.volume_usd = rb.volume_usd
       /\ SameExceptVolume(a, b) =>
            /\ ra.lp_usd_hours = rb.lp_usd_hours
            /\ ra.realized_pnl_net_usd = rb.realized_pnl_net_usd
       /\ SameExceptLiquidity(a, b) =>
            /\ ra.volume_usd = rb.volume_usd
            /\ ra.realized_pnl_net_usd = rb.realized_pnl_net_usd

IndependenceWitness ==
  /\ pc = "done"
  /\ Len(leaderboards) = 2
  /\ SameExceptProfit(leaderboards[1], leaderboards[2])
  /\ leaderboards[1].netProfit < 0 /\ leaderboards[2].netProfit > 0
  /\ leaderboards[1].start = <<>>
  /\ results[1].volume_usd > 0
  /\ results[1].realized_pnl_net_usd # results[2].realized_pnl_net_usd

\* C18: transformLeaderboards keeps length, order and accounts of the raw
\* list and gives a record whose nested liquidity is null the empty
\* liquidity record (lp 0, no start, no ended snapshot); calculateUserPoints
\* on such a record yields liquidity points 0.
MissingLiquidityIsEmpty ==
  pc # "transform" =>
    /\ Len(leaderboards) = Len(raw)
    /\ \A k \in DOMAIN raw :
         /\ leaderboards[k].account = raw[k].account
         /\ raw[k].liquidity = <<>> =>
              /\ leaderboards[k].liquidity.lp = 0
              /\ leaderboards[k].liquidity.start = <<>>
              /\ leaderboards[k].liquidity.ended = <<>>
              /\ k \in DOMAIN results => results[k].lp_usd_hours = 0

MissingLiquidityWitness ==
  /\ pc = "done"
  /\ Len(raw) = 2
  /\ raw[1].account = "u2" /\ raw[2].account = "u1"
  /\ raw[1].liquidity = <<>> /\ raw[2].liquidity # <<>>
  /\ leaderboards[1].liquidity = EmptyLiquidity
  /\ results[1].lp_usd_hours = 0 /\ results[2].lp_usd_hours > 0

\* C16: every failed request (no response, status 429, status >= 500) is
\* retried, retry k after a delay of retryDelay * 2^k, until maxRetries
\* retries were made; only then does an error leave fetchPage.
RetriedUntilExhausted ==
  /\ Len(delays) = retryCount
  /\ retryCount <= clientConfig.maxRetries
  /\ \A k \in DOMAIN delays : delays[k] = clientConfig.retryDelay * 2^(k - 1)
  /\ (cpc = "failed" /\ error.name \in {"RateLimitError", "NetworkError"}) =>
       retryCount = clientConfig.maxRetries

\* C17: fetchAllData collects the records of the source in order, each once,
\* whatever rate-limit errors interrupt it: it returns exactly the records
\* 1..source, never surfaces a RateLimitError, and never gets stuck.
FetchAllDataComplete ==
  mode = "fetchAllData" =>
    /\ allData = [k \in 1..Len(allData) |-> k]
    /\ Len(allData) <= source
    /\ cpc = "returned" => returned = <<[k \in 1..source |-> k]>>
    /\ cpc = "thrown" => error.name # "RateLimitError"
    /\ cpc \notin {"returned", "thrown"} => ENABLED ClientNext

FetchAllDataWitness ==
  /\ mode = "fetchAllData"
  /\ cpc = "returned"
  /\ source = 2 * PageSize
  /\ Len(returned[1]) = source
  /\ \E k \in DOMAIN calls :
       /\ k + 1 \in DOMAIN calls
       /\ calls[k].error.name = "RateLimitError"
       /\ calls[k].skip = PageSize
       /\ calls[k + 1].skip = PageSize /\ calls[k + 1].error = NoError

ZeroLengthWindow ==
  (LastLiq >= 1 /\ startTime = stopTime) =>
    LET liq == leaderboards[LastLiq].liquidity IN
    (liq.ended # <<>> /\ liq.ended[1].timestamp >= startTime) =>
      /\ EndIntegral(liq.ended[1], stopTime) = liq.ended[1].basePoints
      /\ baseIntegral =
           liq.ended[1].basePoints -
             (IF liq.start = <<>> THEN 0
              ELSE LET s == liq.start[1] IN
                   s.basePoints + (Max(startTime, s.timestamp) - s.timestamp) * s.lp)

ZeroLengthWitness ==
  /\ pc = "done"
  /\ startTime = stopTime
  /\ LET liq == leaderboards[1].liquidity IN
     /\ liq.ended # <<>> /\ liq.start # <<>>
     /\ liq.ended[1].timestamp > startTime /\ liq.ended[1].lp > 0
     /\ liq.start[1].timestamp < startTime /\ liq.start[1].lp > 0
  /\ baseIntegral > 0

PointsOfRecord(l) ==
  UserPoints(l.account,
             LiquidityPointOf(calculateLiquidityPointBase(l.liquidity, startTime, stopTime)),
             TradePointOf(TradeVolumeOf(l)),
             TradeProfitPointOf(NetProfitOf(l)))

\* C22: the result at position i depends on record i (and configuration,
\* window, overtime flag) only: the results of a list are the results of its
\* records one by one, so a concatenation or permutation of lists maps to
\* the concatenation or permutation of the results, and records with the
\* same account keep separate results.
PositionwiseResults ==
  /\ \A k \in DOMAIN results :
       k \in DOMAIN leaderboards /\ results[k] = PointsOfRecord(leaderboards[k])
  /\ pc = "done" =>
       /\ Len(results) = Len(leaderboards)
       /\ \A n \in 0..Len(leaderboards) :
            /\ SubSeq(results, 1, n) =
                 [k \in 1..n |-> PointsOfRecord(leaderboards[k])]
            /\ SubSeq(results, n + 1, Len(results)) =
                 [k \in 1..(Len(leaderboards) - n) |->
                    PointsOfRecord(leaderboards[n + k])]

PositionwiseWitness ==
  /\ pc = "done"
  /\ Len(leaderboards) = 2
  /\ leaderboards[1].account = leaderboards[2].account
  /\ leaderboards[1] # leaderboards[2]
  /\ Len(results) = 2
  /\ results[1].account = results[2].account
  /\ results[1].volume_usd > 0 /\ results[2].volume_usd = 0
  /\ results[2].realized_pnl_net_usd > 0

\* C24: when every attempt fails with a 5xx status or without a response,
\* executeQuery makes maxRetries + 1 requests (maxRetries retries, none for
\* maxRetries = 0) and then throws NetworkError.
AttemptsMatchMaxRetries ==
  /\ retryCount <= clientConfig.maxRetries
  /\ (cpc = "failed" /\ error.name = "NetworkError") =>
       Len(delays) + 1 = clientConfig.maxRetries + 1

OnErrorDecides ==
  /\ [](cpc = "caught" =>
          /\ ~options.onError => ~shouldRetry
          /\ allData = [k \in 1..Len(allData) |-> options.startFrom + k])
  /\ [][/\ cpc = "caught" =>
            IF shouldRetry
              THEN /\ cpc' = "scan"
                   /\ skip' = skip /\ allData' = allData /\ hasMore' = hasMore
              ELSE cpc' = "thrown" /\ calls' = calls
        /\ (mode = "fetchWithOptions" /\ cpc = "scan" /\ cpc' = "query") =>
             skip' = skip
        /\ (mode = "fetchWithOptions" /\ cpc = "thrown") =>
             (calls' = calls /\ cpc' \in {"query", "loop", "scan"})]_vars

OnErrorWitness ==
  /\ mode = "fetchWithOptions"
  /\ cpc = "returned"
  /\ options.onError
  /\ options.startFrom = 1
  /\ Len(returned[1]) = source - 1
  /\ Len(calls) = 3
  /\ calls[1].error = NoError
  /\ calls[2].error.name = "RateLimitError" /\ calls[2].skip = PageSize + 1
  /\ calls[3].error = NoError /\ calls[3].skip = PageSize + 1

\* C27: fetchWithOptions returns the records of the source after the first
\* startFrom, in order: all of them when maxRecords is 0 or not given, the
\* first maxRecords of them (or all, if fewer) otherwise.
MaxRecordsRespected ==
  mode = "fetchWithOptions" =>
    /\ allData = [k \in 1..Len(allData) |-> options.startFrom + k]
    /\ options.maxRecords > 0 => Len(allData) <= options.maxRecords
    /\ cpc = "returned" =>
         LET available == Max(0, source - options.startFrom)
             wanted == IF options.maxRecords > 0
                         THEN Min(options.maxRecords, available) ELSE available
         IN returned = <<[k \in 1..wanted |-> options.startFrom + k]>>

MaxRecordsWitness ==
  /\ mode = "fetchWithOptions"
  /\ cpc = "returned"
  /\ options.maxRecords = PageSize + 1
  /\ options.startFrom = 1
  /\ source = 2 * PageSize + 1
  /\ Len(returned[1]) = PageSize + 1
  /\ returned[1][1] = 2

\* C28: with requestsPerSecond = r > 0, however concurrent calls on one
\* client interleave, no two requests are issued less than 1000 / r ms apart.
ConcurrentSpacing ==
  clientConfig.requestsPerSecond > 0 =>
    \A i \in DOMAIN issued, j \in DOMAIN issued :
      i < j => issued[j] - issued[i] >= MsPerSecond \div clientConfig.requestsPerSecond

\* a record has a defect the validator is to report: a missing account, a
\* missing or non-numeric tradingVolume, a missing timestamp, a non-numeric
\* conditionTradeVolume, swap or netProfit, or a defect of its liquidity
NonNumeric(value) == value # <<>> /\ ~isValidNumericString(value)

SnapDefect(snap) ==
  \/ snap.id = ""
  \/ snap.timestamp = <<>>
  \/ snap.lp = <<>> \/ NonNumeric(snap.lp)
  \/ snap.basePoints = <<>> \/ NonNumeric(snap.basePoints)

LiquidityDefect(liquidity) ==
  \/ liquidity.account = ""
  \/ liquidity.lp = <<>> \/ NonNumeric(liquidity.lp)
  \/ \E k \in DOMAIN liquidity.start : SnapDefect(liquidity.start[k])
  \/ \E k \in DOMAIN liquidity.ended : SnapDefect(liquidity.ended[k])

Defective(record) ==
  \/ record.account = ""
  \/ record.tradingVolume = <<>> \/ NonNumeric(record.tradingVolume)
  \/ record.latestUpdateTimestamp = <<>>
  \/ NonNumeric(record.conditionTradeVolume)
  \/ NonNumeric(record.swap)
  \/ NonNumeric(record.netProfit)
  \/ record.liquidity # <<>> /\ LiquidityDefect(record.liquidity[1])

\* C29: validateLeaderboards partitions its input: validCount + invalidCount
\* is the number of records, invalidCount is the number of error entries, a
\* record has an entry exactly when it has a defect, and the entries carry
\* the (0-based) indices of their records, each at most once.
ValidationPartitions ==
  pc = "validated" =>
    LET s == summary[1] IN
    /\ s.validCount + s.invalidCount = Len(raw)
    /\ s.invalidCount = Len(s.errors)
    /\ \A k \in DOMAIN raw :
         Defective(raw[k]) <=> \E e \in DOMAIN s.errors : s.errors[e].index = k - 1
    /\ \A e \in DOMAIN s.errors :
         /\ s.errors[e].index \in 0..(Len(raw) - 1)
         /\ Len(s.errors[e].errors) > 0
         /\ \A f \in DOMAIN s.errors : s.errors[f].index = s.errors[e].index => f = e

\* a valid record followed by one whose only defect is in its liquidity
ValidationWitness ==
  /\ pc = "validated"
  /\ Len(raw) = 2
  /\ ~Defective(raw[1])
  /\ validateLeaderboard(raw[2]) = <<>>
  /\ Defective(raw[2])
  /\ summary[1].validCount = 1
  /\ summary[1].errors[1].index = 1

\* n / 10^places when that is an integer (zero-or-one sequence)
RECURSIVE ExactPowerOfTen(_, _)
ExactPowerOfTen(n, places) ==
  IF places = 0 THEN <<n>>
  ELSE IF n % 10 # 0 THEN <<>>
  ELSE ExactPowerOfTen(n \div 10, places - 1)

\* the value of a raw wire string, and the sum of the raw values of a field
RawValue(x) ==
  IF x = <<>> THEN 0
  ELSE IF Head(x) = "-" THEN 0 - DigitsValue(Tail(x)) ELSE DigitsValue(x)

RECURSIVE RawVolumeSum(_)
RawVolumeSum(raws) ==
  IF raws = <<>> THEN 0
  ELSE RawValue(Head(raws).tradingVolume) + RawVolumeSum(Tail(raws))

\* C30: transformLeaderboards and DataStats.calculateStats turn a raw
\* 18-decimal fixed-point string into its unit value raw / 10^18: the
\* transformed tradingVolume and netProfit of every record, and the total
\* trading volume of the statistics, are the raw values divided by 10^18.
UnitConversion ==
  pc # "transform" =>
    /\ \A k \in DOMAIN raw :
         /\ <<leaderboards[k].tradingVolume>>
              = ExactPowerOfTen(RawValue(raw[k].tradingVolume), 18)
         /\ <<leaderboards[k].netProfit>>
              = ExactPowerOfTen(RawValue(raw[k].netProfit), 18)
    /\ <<calculateStats(raw).totalTradingVolume>>
         = ExactPowerOfTen(RawVolumeSum(raw), 18)

====
